---------------------------- MODULE Spec2Model ----------------------------
(***************************************************************************)
(* A model of the CarLease contract (src/contracts/CarLease.sol): the      *)
(* commit-reveal admission of a lessee, the confirmation by the dealer,    *)
(* the monthly payments, and the refund / seizure of the deposit.          *)
(*                                                                         *)
(* Every external function of the contract is one action.  For each the   *)
(* operator ...Result gives the outcome of a call in the current state:    *)
(* the revert string of the first require that fails, in the order of the  *)
(* code, or "ok".  A call that reverts changes nothing, so the requires   *)
(* are the action's guard; a call that returns applies the function's      *)
(* assignments.  The history variable `last` names the latest call that    *)
(* returned and its msg.sender.                                            *)
(*                                                                         *)
(* Time is counted in days (the contract's `1 days` is 1 here).  Wei       *)
(* amounts are small naturals.  Addresses are small naturals, 0 being      *)
(* address(0).  keccak256(abi.encodePacked(tokenId, secret, sender)) is    *)
(* modelled as the injective tuple <<tokenId, secret, sender>>; bytes32(0) *)
(* is the tuple <<0, 0, 0>>, which is the image of no call.                *)
(***************************************************************************)
EXTENDS Integers, FiniteSets, Sequences, TLC

\* ------------------------------------------------------------------ bounds
\* The largest monthlyPaymentWei and durationMonths a caller proposes, the
\* timestamp of the deployment block (block timestamps are far larger than
\* PAYMENT_GRACE), the last instant considered, and the number of payment
\* periods whose start the clock is moved to.
MaxMonthly == 1
MaxDuration == 1
Genesis == 50
MaxTime == 127
MaxPeriods == 2
\* For computeMonthlyPayment: the largest originalValueWei and durationMonths
\* passed, and the width of uint256 scaled down so that the products of the
\* function overflow within the values passed.
MaxValue == 70
MaxQuoteDuration == 3
WordBits == 16

\* ------------------------------------------------- the contract's constants
REVEAL_WINDOW == 7
CONFIRM_WINDOW == 7
PAYMENT_GRACE == 45
PERIOD == 30
DEPOSIT_MULTIPLE == 3
\* src/CarLease.sol
MAX_USAGE_PERCENT == 100
MAX_CREDIT_FACTOR == 1000

\* ---------------------------------------------------------------- identities
NoAddr == 0
Owner == 1
Addrs == {1, 2, 3}
Secrets == {1, 2}

TokenIds == {1}
MonthlyAmounts == 0 .. MaxMonthly
Durations == 1 .. MaxDuration
\* msg.value: each monthly amount (the exact payment, a wrong deposit) and
\* each deposit (the exact deposit, a wrong payment).
Values == MonthlyAmounts \cup {DEPOSIT_MULTIPLE * m : m \in MonthlyAmounts}

\* Mutant of Hash: the digest does not bind the sender.
Hash_NoSender(tokenId, secret, sender) == <<tokenId, secret, NoAddr>>

\* keccak256(abi.encodePacked(tokenId, secret, msg.sender))
Hash(tokenId, secret, sender) == <<tokenId, secret, sender>>
ZeroHash == <<0, 0, 0>>
\* The bytes32 values a caller passes to commitToLease.
Digests == {Hash(t, s, a) : t \in TokenIds, s \in Secrets, a \in Addrs}
               \cup {ZeroHash}

\* The zero value of the structs (what `delete` leaves, and what an unset
\* mapping entry reads as).
NoCommit == [commitment |-> ZeroHash, committer |-> NoAddr, deadline |-> 0]

NoLease ==
    [lessee |-> NoAddr, startTime |-> 0, durationMonths |-> 0,
     monthlyPayment |-> 0, deposit |-> 0, paymentsMade |-> 0,
     lastPaymentTime |-> 0, active |-> FALSE, exists |-> FALSE,
     confirmDeadline |-> 0]

\* The phase of a lease record, read from its flags: startTime is 0 until
\* the first confirmLease and a block timestamp afterwards.
Phase(l) ==
    IF ~l.exists THEN "NONE"
    ELSE IF l.active THEN "ACTIVE"
    ELSE IF l.startTime = 0 THEN "PENDING"
    ELSE "TERMINATED"

VARIABLES
    now,          \* block.timestamp, in days
    nextTokenId,  \* _nextTokenId
    carData,      \* carData[tokenId].originalValueWei
    leases,       \* leases[tokenId]
    commits,      \* commits[tokenId]
    balance,      \* address(this).balance
    last,         \* history: the latest call that returned
    mintedTerms,  \* history: the terms passed to mintOption for the token
    transfer,     \* the ETH transfer in progress (_sendEther), if any
    paid,         \* history: the sum of the monthly payments accepted
    ledger,       \* history: per token, the deposit paid in at the latest
                  \* reveal and what was sent out of it since, and to whom
    quoted        \* the latest call of computeMonthlyPayment and its outcome

vars == <<now, nextTokenId, carData, leases, commits, balance, last,
          mintedTerms, transfer, paid, ledger, quoted>>
store == <<nextTokenId, carData, leases, commits, balance>>

NoCall == [op |-> "none", caller |-> NoAddr, tokenId |-> 0]

\* mintOption's monthlyPaymentWei and durationMonths (the contract checks
\* them and stores neither).
NoTerms == [monthlyPaymentWei |-> 0, durationMonths |-> 0]

\* No call of the contract is inside recipient.call{value: amount}("").
NoTransfer == [op |-> "none", to |-> NoAddr, amount |-> 0, tokenId |-> 0,
               saved |-> <<>>]

\* computeMonthlyPayment was not called: `quoted` is empty, and holds the
\* one record of the latest call otherwise.
NoQuote == <<>>

\* A ledger entry is <<paid in, sent to the lessee, sent to the owner>>.
\* Nothing was paid in for the token and nothing sent out.
NoEntry == <<0, 0, 0>>
PaidIn(t) == ledger[t][1]
ToLessee(t) == ledger[t][2]
ToOwner(t) == ledger[t][3]

\* `last` after a call: the call if it returned, unchanged if it reverted.
Call(op, caller, tokenId, res) ==
    IF res = "ok" THEN [op |-> op, caller |-> caller, tokenId |-> tokenId]
    ELSE last

\* The records a function appends to the event log when it returns, in the
\* order of its emit statements.  mintOption calls ERC721._mint, which emits
\* the token's Transfer(address(0), address(this), tokenId) before the
\* function emits OptionMinted.
Logs(op, tokenId) ==
    LET Rec(name) == [event |-> name, tokenId |-> tokenId]
    IN  CASE op = "mintOption" -> <<Rec("Transfer"), Rec("OptionMinted")>>
          [] op = "commitToLease" -> <<Rec("CommitPlaced")>>
          [] op = "revealAndPay" -> <<Rec("LeaseSignedRevealed")>>
          [] op = "confirmLease" -> <<Rec("LeaseConfirmed")>>
          [] op = "makeMonthlyPayment" -> <<Rec("MonthlyPaid")>>
          [] op = "terminateLease" -> <<Rec("LeaseTerminated")>>
          [] op = "refundUnconfirmedDeposit" -> <<Rec("RefundUnconfirmed")>>
          [] op = "claimDeposit" -> <<Rec("DepositClaimed")>>
          [] OTHER -> <<>>

\* The records that the latest call that returned appended to the event
\* log (a revert discards the records of the call).
Emitted == Logs(last.op, last.tokenId)

Init ==
    /\ now = Genesis
    /\ nextTokenId = 1
    /\ carData = [t \in TokenIds |-> 0]
    /\ leases = [t \in TokenIds |-> NoLease]
    /\ commits = [t \in TokenIds |-> NoCommit]
    /\ balance = 0
    /\ last = NoCall
    /\ mintedTerms = [t \in TokenIds |-> NoTerms]
    /\ transfer = NoTransfer
    /\ paid = 0
    /\ ledger = [t \in TokenIds |-> NoEntry]
    /\ quoted = NoQuote

\* ERC721._ownerOf(tokenId) != address(0): the token was minted.  The contract
\* mints to itself and has no function that transfers a token, so
\* ownerOf(tokenId) == address(this) holds for every minted token.
TokenExists(tokenId) == tokenId < nextTokenId

ValidateContractOwnsToken(tokenId) ==
    IF TokenExists(tokenId) THEN "ok" ELSE "Token does not exist"

\* ------------------------------------------------------------- mintOption
MintResult(modelLen, originalValueWei, monthlyPaymentWei, durationMonths, caller) ==
    IF caller # Owner THEN "OwnableUnauthorizedAccount"
    ELSE IF ~(modelLen > 0) THEN "Model cannot be empty"
    ELSE IF ~(originalValueWei > 0) THEN "Original value must be greater than zero"
    ELSE IF ~(monthlyPaymentWei > 0) THEN "Monthly payment must be greater than zero"
    ELSE IF ~(durationMonths > 0) THEN "Duration must be greater than zero"
    ELSE "ok"

MintOption(modelLen, originalValueWei, monthlyPaymentWei, durationMonths, caller) ==
    LET res == MintResult(modelLen, originalValueWei, monthlyPaymentWei,
                          durationMonths, caller)
        tokenId == nextTokenId
    IN  /\ nextTokenId \in TokenIds
        /\ res = "ok"
        /\ last' = Call("mintOption", caller, tokenId, res)
        /\ IF res = "ok"
           THEN /\ nextTokenId' = nextTokenId + 1
                /\ carData' = [carData EXCEPT ![tokenId] = originalValueWei]
                /\ mintedTerms' = [mintedTerms EXCEPT ![tokenId] =
                                      [monthlyPaymentWei |-> monthlyPaymentWei,
                                       durationMonths |-> durationMonths]]
           ELSE UNCHANGED <<nextTokenId, carData, mintedTerms>>
        /\ UNCHANGED <<now, leases, commits, balance, transfer, paid, ledger,
                       quoted>>

\* ----------------------------------------------------------- commitToLease
\* Mutant of CommitResult: the check of an existing lease is missing.
CommitResult_NoLeaseCheck(tokenId, caller) ==
    ValidateContractOwnsToken(tokenId)

\* Mutant of CommitResult: another identity's unexpired commitment blocks.
CommitResult_LiveCommitBlocks(tokenId, caller) ==
    IF ValidateContractOwnsToken(tokenId) # "ok"
    THEN ValidateContractOwnsToken(tokenId)
    ELSE IF leases[tokenId].exists THEN "Already leased"
    ELSE IF /\ commits[tokenId].committer \notin {NoAddr, caller}
            /\ now <= commits[tokenId].deadline
    THEN "Commitment exists"
    ELSE "ok"

CommitResult(tokenId, caller) ==
    IF ValidateContractOwnsToken(tokenId) # "ok"
    THEN ValidateContractOwnsToken(tokenId)
    ELSE IF leases[tokenId].exists THEN "Already leased"
    ELSE "ok"

CommitToLease(tokenId, commitment, caller) ==
    LET res == CommitResult(tokenId, caller)
    IN  /\ res = "ok"
        /\ last' = Call("commitToLease", caller, tokenId, res)
        /\ IF res = "ok"
           THEN commits' = [commits EXCEPT ![tokenId] =
                               [commitment |-> commitment,
                                committer |-> caller,
                                deadline |-> now + REVEAL_WINDOW]]
           ELSE UNCHANGED commits
        /\ UNCHANGED <<now, nextTokenId, carData, leases, balance,
                       mintedTerms, transfer, paid, ledger, quoted>>

\* ------------------------------------------------------------ revealAndPay
\* Mutant of RevealResult: the revealed secret is not compared with the digest.
RevealResult_NoSecretCheck(tokenId, secret, monthlyPaymentWei, value, caller) ==
    IF ValidateContractOwnsToken(tokenId) # "ok"
    THEN ValidateContractOwnsToken(tokenId)
    ELSE IF ~(now <= commits[tokenId].deadline) THEN "Commitment expired"
    ELSE IF leases[tokenId].exists THEN "Already leased"
    ELSE IF ~(value = monthlyPaymentWei * DEPOSIT_MULTIPLE) THEN "Incorrect deposit"
    ELSE "ok"

\* Mutant of RevealResult: the reveal deadline itself is already too late.
RevealResult_StrictDeadline(tokenId, secret, monthlyPaymentWei, value, caller) ==
    IF ValidateContractOwnsToken(tokenId) # "ok"
    THEN ValidateContractOwnsToken(tokenId)
    ELSE IF ~(now < commits[tokenId].deadline) THEN "Commitment expired"
    ELSE IF ~(Hash(tokenId, secret, caller) = commits[tokenId].commitment)
    THEN "Invalid secret"
    ELSE IF leases[tokenId].exists THEN "Already leased"
    ELSE IF ~(value = monthlyPaymentWei * DEPOSIT_MULTIPLE) THEN "Incorrect deposit"
    ELSE "ok"

RevealResult(tokenId, secret, monthlyPaymentWei, value, caller) ==
    IF ValidateContractOwnsToken(tokenId) # "ok"
    THEN ValidateContractOwnsToken(tokenId)
    ELSE IF ~(now <= commits[tokenId].deadline) THEN "Commitment expired"
    ELSE IF ~(Hash(tokenId, secret, caller) = commits[tokenId].commitment)
    THEN "Invalid secret"
    ELSE IF leases[tokenId].exists THEN "Already leased"
    ELSE IF ~(value = monthlyPaymentWei * DEPOSIT_MULTIPLE) THEN "Incorrect deposit"
    ELSE "ok"

\* Mutant of DeleteCommit: the consumed commitment stays stored.
DeleteCommit_Kept(tokenId) == commits

\* delete commits[tokenId]
DeleteCommit(tokenId) == [commits EXCEPT ![tokenId] = NoCommit]

RevealAndPay(tokenId, secret, durationMonths, monthlyPaymentWei, value, caller) ==
    LET res == RevealResult(tokenId, secret, monthlyPaymentWei, value, caller)
    IN  /\ res = "ok"
        /\ last' = Call("revealAndPay", caller, tokenId, res)
        /\ IF res = "ok"
           THEN /\ leases' = [leases EXCEPT ![tokenId] =
                                [lessee |-> caller,
                                 startTime |-> 0,
                                 durationMonths |-> durationMonths,
                                 monthlyPayment |-> monthlyPaymentWei,
                                 deposit |-> value,
                                 paymentsMade |-> 0,
                                 lastPaymentTime |-> 0,
                                 active |-> FALSE,
                                 exists |-> TRUE,
                                 confirmDeadline |-> now + CONFIRM_WINDOW]]
                /\ commits' = DeleteCommit(tokenId)
                /\ balance' = balance + value
                /\ ledger' = [ledger EXCEPT ![tokenId] = <<value, 0, 0>>]
           ELSE UNCHANGED <<leases, commits, balance, ledger>>
        /\ UNCHANGED <<now, nextTokenId, carData, mintedTerms, transfer,
                       paid, quoted>>

\* ------------------------------------------------------------ confirmLease
ConfirmResult(tokenId, caller) ==
    IF caller # Owner THEN "OwnableUnauthorizedAccount"
    ELSE IF ~leases[tokenId].exists THEN "Lease does not exist"
    ELSE IF leases[tokenId].active THEN "Already confirmed"
    ELSE "ok"

ConfirmLease_TakesOver(tokenId, caller) ==
    LET res == ConfirmResult(tokenId, caller)
    IN  /\ res = "ok"
        /\ last' = Call("confirmLease", caller, tokenId, res)
        /\ IF res = "ok"
           THEN leases' = [leases EXCEPT ![tokenId].active = TRUE,
                                         ![tokenId].startTime = now,
                                         ![tokenId].lessee = caller]
           ELSE UNCHANGED leases
        /\ UNCHANGED <<now, nextTokenId, carData, commits, balance,
                       mintedTerms, transfer, paid, ledger, quoted>>

ConfirmLease(tokenId, caller) ==
    LET res == ConfirmResult(tokenId, caller)
    IN  /\ res = "ok"
        /\ last' = Call("confirmLease", caller, tokenId, res)
        /\ IF res = "ok"
           THEN leases' = [leases EXCEPT ![tokenId].active = TRUE,
                                         ![tokenId].startTime = now]
           ELSE UNCHANGED leases
        /\ UNCHANGED <<now, nextTokenId, carData, commits, balance,
                       mintedTerms, transfer, paid, ledger, quoted>>

\* ------------------------------------------------------ makeMonthlyPayment
ExpectedPayments(tokenId) == (now - leases[tokenId].startTime) \div PERIOD

PayResult_AnyAmount(tokenId, value, caller) ==
    IF ~leases[tokenId].exists THEN "Lease does not exist"
    ELSE IF ~leases[tokenId].active THEN "Lease not active"
    ELSE IF ~(caller = leases[tokenId].lessee) THEN "Only lessee can pay"
    ELSE IF ~(leases[tokenId].paymentsMade < ExpectedPayments(tokenId))
    THEN "Payment not due"
    ELSE "ok"

\* Mutant of PayResult: payments stop once durationMonths of them are made.
PayResult_Capped(tokenId, value, caller) ==
    IF ~leases[tokenId].exists THEN "Lease does not exist"
    ELSE IF ~leases[tokenId].active THEN "Lease not active"
    ELSE IF ~(caller = leases[tokenId].lessee) THEN "Only lessee can pay"
    ELSE IF ~(value = leases[tokenId].monthlyPayment) THEN "Incorrect payment amount"
    ELSE IF ~(leases[tokenId].paymentsMade < leases[tokenId].durationMonths)
    THEN "Lease term complete"
    ELSE IF ~(leases[tokenId].paymentsMade < ExpectedPayments(tokenId))
    THEN "Payment not due"
    ELSE "ok"

PayResult(tokenId, value, caller) ==
    IF ~leases[tokenId].exists THEN "Lease does not exist"
    ELSE IF ~leases[tokenId].active THEN "Lease not active"
    ELSE IF ~(caller = leases[tokenId].lessee) THEN "Only lessee can pay"
    ELSE IF ~(value = leases[tokenId].monthlyPayment) THEN "Incorrect payment amount"
    ELSE IF ~(leases[tokenId].paymentsMade < ExpectedPayments(tokenId))
    THEN "Payment not due"
    ELSE "ok"

MakeMonthlyPayment(tokenId, value, caller) ==
    LET res == PayResult(tokenId, value, caller)
    IN  /\ res = "ok"
        /\ last' = Call("makeMonthlyPayment", caller, tokenId, res)
        /\ IF res = "ok"
           THEN /\ leases' = [leases EXCEPT
                                ![tokenId].paymentsMade = @ + 1,
                                ![tokenId].lastPaymentTime = now]
                /\ balance' = balance + value
                /\ paid' = paid + value
           ELSE UNCHANGED <<leases, balance, paid>>
        /\ UNCHANGED <<now, nextTokenId, carData, commits, mintedTerms, transfer,
                       ledger, quoted>>

\* ---------------------------------------------------------- terminateLease
TerminateResult_NoAuth(tokenId, caller) ==
    IF ~leases[tokenId].exists THEN "Lease does not exist"
    ELSE IF ~leases[tokenId].active THEN "Lease not active"
    ELSE "ok"

TerminateResult(tokenId, caller) ==
    IF ~leases[tokenId].exists THEN "Lease does not exist"
    ELSE IF ~leases[tokenId].active THEN "Lease not active"
    ELSE IF ~(caller = Owner \/ caller = leases[tokenId].lessee) THEN "Unauthorized"
    ELSE "ok"

\* Mutant of TerminateLease: the deposit is paid out on termination.
TerminateLease_PaysOut(tokenId, caller) ==
    LET res == TerminateResult(tokenId, caller)
    IN  /\ res = "ok"
        /\ last' = Call("terminateLease", caller, tokenId, res)
        /\ IF res = "ok"
           THEN /\ leases' = [leases EXCEPT ![tokenId].active = FALSE,
                                            ![tokenId].deposit = 0]
                /\ balance' = balance - leases[tokenId].deposit
           ELSE UNCHANGED <<leases, balance>>
        /\ UNCHANGED <<now, nextTokenId, carData, commits, mintedTerms,
                       transfer, paid, ledger, quoted>>

TerminateLease(tokenId, caller) ==
    LET res == TerminateResult(tokenId, caller)
    IN  /\ res = "ok"
        /\ last' = Call("terminateLease", caller, tokenId, res)
        /\ IF res = "ok"
           THEN leases' = [leases EXCEPT ![tokenId].active = FALSE]
           ELSE UNCHANGED leases
        /\ UNCHANGED <<now, nextTokenId, carData, commits, balance,
                       mintedTerms, transfer, paid, ledger, quoted>>

\* ---------------------------------------------------------------- _sendEther
\* recipient.call{value: amount}(""): fails when the recipient rejects the
\* transfer (accepts = FALSE) or the contract does not hold the amount.
SendEther_Unchecked(amount, accepts) == "ok"

SendEther(amount, accepts) ==
    IF accepts /\ amount <= balance THEN "ok" ELSE "ETH transfer failed"

\* ------------------------------------------------ refundUnconfirmedDeposit
RefundAmount_Monthly(tokenId) == leases[tokenId].monthlyPayment

\* uint256 refundAmount = lease.deposit
RefundAmount(tokenId) == leases[tokenId].deposit

RefundResult(tokenId, caller, accepts) ==
    IF ~leases[tokenId].exists THEN "Lease does not exist"
    ELSE IF leases[tokenId].active THEN "Lease already confirmed"
    ELSE IF ~(now > leases[tokenId].confirmDeadline)
    THEN "Confirmation deadline not passed"
    ELSE IF ~(caller = leases[tokenId].lessee) THEN "Only lessee can claim refund"
    ELSE IF ~(RefundAmount(tokenId) > 0) THEN "No deposit to refund"
    ELSE SendEther(RefundAmount(tokenId), accepts)

RefundUnconfirmedDeposit(tokenId, caller, accepts) ==
    LET res == RefundResult(tokenId, caller, accepts)
    IN  /\ res = "ok"
        /\ last' = Call("refundUnconfirmedDeposit", caller, tokenId, res)
        /\ IF res = "ok"
           THEN /\ leases' = [leases EXCEPT ![tokenId] = NoLease]
                /\ balance' = balance - RefundAmount(tokenId)
                /\ ledger' = [ledger EXCEPT ![tokenId][2] =
                                 @ + RefundAmount(tokenId)]
           ELSE UNCHANGED <<leases, balance, ledger>>
        /\ UNCHANGED <<now, nextTokenId, carData, commits, mintedTerms,
                       transfer, paid, quoted>>

\* ------------------------------------------------------------ claimDeposit
ClaimResult_NoCurrentCheck(tokenId, caller, accepts) ==
    IF caller # Owner THEN "OwnableUnauthorizedAccount"
    ELSE IF ~leases[tokenId].exists THEN "Lease does not exist"
    ELSE IF ~leases[tokenId].active THEN "Lease not active"
    ELSE IF ~(now > leases[tokenId].lastPaymentTime + PAYMENT_GRACE)
    THEN "Payment grace period not expired"
    ELSE IF ~(leases[tokenId].deposit > 0) THEN "No deposit to claim"
    ELSE SendEther(leases[tokenId].deposit, accepts)

ClaimResult(tokenId, caller, accepts) ==
    IF caller # Owner THEN "OwnableUnauthorizedAccount"
    ELSE IF ~leases[tokenId].exists THEN "Lease does not exist"
    ELSE IF ~leases[tokenId].active THEN "Lease not active"
    ELSE IF ~(now > leases[tokenId].lastPaymentTime + PAYMENT_GRACE)
    THEN "Payment grace period not expired"
    ELSE IF ~(leases[tokenId].paymentsMade < ExpectedPayments(tokenId))
    THEN "Payments are current"
    ELSE IF ~(leases[tokenId].deposit > 0) THEN "No deposit to claim"
    ELSE SendEther(leases[tokenId].deposit, accepts)

\* Mutant of ClaimDeposit: the owner seizes one monthly payment and the
\* deposit field is not cleared.
ClaimDeposit_SeizesOneMonth(tokenId, caller, accepts) ==
    LET res == ClaimResult(tokenId, caller, accepts)
    IN  /\ res = "ok"
        /\ last' = Call("claimDeposit", caller, tokenId, res)
        /\ IF res = "ok"
           THEN /\ leases' = [leases EXCEPT ![tokenId].active = FALSE]
                /\ balance' = balance - leases[tokenId].monthlyPayment
                /\ ledger' = [ledger EXCEPT ![tokenId][3] =
                                 @ + leases[tokenId].monthlyPayment]
           ELSE UNCHANGED <<leases, balance, ledger>>
        /\ UNCHANGED <<now, nextTokenId, carData, commits, mintedTerms,
                       transfer, paid, quoted>>

ClaimDeposit(tokenId, caller, accepts) ==
    LET res == ClaimResult(tokenId, caller, accepts)
    IN  /\ res = "ok"
        /\ last' = Call("claimDeposit", caller, tokenId, res)
        /\ IF res = "ok"
           THEN /\ leases' = [leases EXCEPT ![tokenId].active = FALSE,
                                            ![tokenId].deposit = 0]
                /\ balance' = balance - leases[tokenId].deposit
                /\ ledger' = [ledger EXCEPT ![tokenId][3] =
                                 @ + leases[tokenId].deposit]
           ELSE UNCHANGED <<leases, balance, ledger>>
        /\ UNCHANGED <<now, nextTokenId, carData, commits, mintedTerms,
                       transfer, paid, quoted>>

\* ---------------------------------------------------------- isPaymentCurrent
\* Mutant of IsPaymentCurrent: the view looks at the grace period alone.
IsPaymentCurrent_GraceOnly(tokenId) ==
    IF ~leases[tokenId].active THEN FALSE
    ELSE now <= leases[tokenId].lastPaymentTime + PAYMENT_GRACE

\* The view isPaymentCurrent(tokenId).
IsPaymentCurrent(tokenId) ==
    IF ~leases[tokenId].active THEN FALSE
    ELSE IF leases[tokenId].paymentsMade >= ExpectedPayments(tokenId) THEN TRUE
    ELSE IF now <= leases[tokenId].lastPaymentTime + PAYMENT_GRACE THEN TRUE
    ELSE FALSE

\* ---------------------------------------------------------- plain transfer
\* Mutant of ReceiveResult: the contract has a receive function.
ReceiveResult_Accepts(value) == "ok"

\* A transfer of ETH to the contract that names no function (or a function
\* the contract does not have): the contract declares neither receive() nor
\* fallback(), so the call reverts.
ReceiveResult(value) == "no receive or fallback function"

Receive(value, caller) ==
    LET res == ReceiveResult(value)
    IN  /\ last' = Call("receive", caller, 0, res)
        /\ IF res = "ok"
           THEN balance' = balance + value
           ELSE UNCHANGED balance
        /\ UNCHANGED <<now, nextTokenId, carData, leases, commits, mintedTerms,
                       transfer, paid, ledger, quoted>>

\* ------------------------------------------------------------------- clock
\* block.timestamp is set by the environment.  The clock moves to an instant
\* at which some time comparison of the contract changes its value, or to the
\* instant right after it: a reveal deadline, a confirmation deadline, the
\* start of a payment period, the end of the grace period, and one period
\* after the latest payment.
Instants ==
    UNION {
        (IF commits[t].committer # NoAddr
         THEN {commits[t].deadline, commits[t].deadline + 1} ELSE {})
        \cup
        (IF leases[t].exists
         THEN {leases[t].confirmDeadline, leases[t].confirmDeadline + 1} ELSE {})
        \cup
        (IF leases[t].active
         THEN {leases[t].startTime + k * PERIOD : k \in 1 .. MaxPeriods}
              \cup {leases[t].lastPaymentTime + PAYMENT_GRACE,
                    leases[t].lastPaymentTime + PAYMENT_GRACE + 1,
                    leases[t].lastPaymentTime + PERIOD}
         ELSE {})
        : t \in TokenIds }

Tick(t) ==
    /\ t \in Instants
    /\ t > now
    /\ t <= MaxTime
    /\ now' = t
    /\ last' = NoCall
    /\ UNCHANGED <<store, mintedTerms, transfer, paid, ledger, quoted>>

\* --------------------------------------------------------------------- next
Next ==
    \/ \E modelLen \in 0 .. 1, originalValueWei \in 0 .. 1,
          monthlyPaymentWei \in 0 .. 1, durationMonths \in 0 .. 1, caller \in Addrs :
          MintOption(modelLen, originalValueWei, monthlyPaymentWei,
                     durationMonths, caller)
    \/ \E tokenId \in TokenIds, commitment \in Digests, caller \in Addrs :
          CommitToLease(tokenId, commitment, caller)
    \/ \E tokenId \in TokenIds, secret \in Secrets, durationMonths \in Durations,
          monthlyPaymentWei \in MonthlyAmounts, value \in Values, caller \in Addrs :
          RevealAndPay(tokenId, secret, durationMonths, monthlyPaymentWei,
                       value, caller)
    \/ \E tokenId \in TokenIds, caller \in Addrs : ConfirmLease(tokenId, caller)
    \/ \E tokenId \in TokenIds, value \in Values, caller \in Addrs :
          MakeMonthlyPayment(tokenId, value, caller)
    \/ \E tokenId \in TokenIds, caller \in Addrs : TerminateLease(tokenId, caller)
    \/ \E tokenId \in TokenIds, caller \in Addrs, accepts \in BOOLEAN :
          RefundUnconfirmedDeposit(tokenId, caller, accepts)
    \/ \E tokenId \in TokenIds, caller \in Addrs, accepts \in BOOLEAN :
          ClaimDeposit(tokenId, caller, accepts)
    \/ \E value \in Values, caller \in Addrs : Receive(value, caller)
    \/ \E t \in Genesis .. MaxTime : Tick(t)

Spec == Init /\ [][Next]_vars

\* ------------------------------------------------- calls during a transfer
\* A second specification, in which refundUnconfirmedDeposit and
\* claimDeposit are not atomic: recipient.call{value: amount}("") hands
\* control to the recipient, whose code may call the contract again before
\* the transfer returns.  The transfer moves the amount when the call is
\* made; if the recipient's code fails, require(success) reverts the whole
\* call, the recipient's nested calls included.

LeasesAtTransfer_NotYetWritten(op, tokenId) == leases

\* The lease records when recipient.call is made: the code has already
\* written them (delete leases[tokenId]; active = false and deposit = 0).
LeasesAtTransfer(op, tokenId) ==
    IF op = "refundUnconfirmedDeposit"
    THEN [leases EXCEPT ![tokenId] = NoLease]
    ELSE [leases EXCEPT ![tokenId].active = FALSE, ![tokenId].deposit = 0]

\* What a revert of the call in progress restores.
Snapshot ==
    <<nextTokenId, carData, leases, commits, balance, last, mintedTerms, paid,
      ledger>>

\* refundUnconfirmedDeposit / claimDeposit up to and including the call of
\* the recipient: every require passed, the record is written, the amount
\* has left the contract.
BeginTransfer(op, tokenId, caller) ==
    /\ transfer = NoTransfer
    /\ IF op = "refundUnconfirmedDeposit"
       THEN RefundResult(tokenId, caller, TRUE) = "ok"
       ELSE ClaimResult(tokenId, caller, TRUE) = "ok"
    /\ leases' = LeasesAtTransfer(op, tokenId)
    /\ balance' = balance - leases[tokenId].deposit
    /\ transfer' = [op |-> op, to |-> caller,
                    amount |-> leases[tokenId].deposit,
                    tokenId |-> tokenId, saved |-> Snapshot]
    /\ ledger' = IF op = "refundUnconfirmedDeposit"
                 THEN [ledger EXCEPT ![tokenId][2] =
                          @ + leases[tokenId].deposit]
                 ELSE [ledger EXCEPT ![tokenId][3] =
                          @ + leases[tokenId].deposit]
    /\ UNCHANGED <<now, nextTokenId, carData, commits, last, mintedTerms, paid,
                   quoted>>

\* The nonReentrant modifier of revealAndPay, makeMonthlyPayment,
\* refundUnconfirmedDeposit and claimDeposit.
NonReentrantResult ==
    IF transfer # NoTransfer THEN "ReentrancyGuardReentrantCall" ELSE "ok"

\* The recipient's code calls the contract: commitToLease, confirmLease and
\* terminateLease run on the state as written; the nonReentrant functions
\* revert.  (mintOption needs an unminted token, and the call in progress
\* is on the only token.)
ReenterCommit(tokenId, commitment) ==
    transfer # NoTransfer /\ CommitToLease(tokenId, commitment, transfer.to)

ReenterConfirm(tokenId) ==
    transfer # NoTransfer /\ ConfirmLease(tokenId, transfer.to)

ReenterTerminate(tokenId) ==
    transfer # NoTransfer /\ TerminateLease(tokenId, transfer.to)

ReenterGuarded ==
    /\ NonReentrantResult # "ok"
    /\ UNCHANGED vars

\* recipient.call returns.  success: the function returns.  Failure:
\* require(success, "ETH transfer failed") reverts the call.
EndTransfer(accepts) ==
    /\ transfer # NoTransfer
    /\ transfer' = NoTransfer
    /\ IF accepts
       THEN /\ last' = [op |-> transfer.op, caller |-> transfer.to,
                        tokenId |-> transfer.tokenId]
            /\ UNCHANGED <<nextTokenId, carData, leases, commits, balance,
                           mintedTerms, paid, ledger>>
       ELSE /\ nextTokenId' = transfer.saved[1]
            /\ carData' = transfer.saved[2]
            /\ leases' = transfer.saved[3]
            /\ commits' = transfer.saved[4]
            /\ balance' = transfer.saved[5]
            /\ last' = transfer.saved[6]
            /\ mintedTerms' = transfer.saved[7]
            /\ paid' = transfer.saved[8]
            /\ ledger' = transfer.saved[9]
    /\ UNCHANGED <<now, quoted>>

NextReentrant ==
    \/ /\ transfer = NoTransfer
       /\ \E modelLen \in 0 .. 1, originalValueWei \in 0 .. 1,
             monthlyPaymentWei \in 0 .. 1, durationMonths \in 0 .. 1,
             caller \in Addrs :
             MintOption(modelLen, originalValueWei, monthlyPaymentWei,
                        durationMonths, caller)
    \/ /\ transfer = NoTransfer
       /\ \E tokenId \in TokenIds, commitment \in Digests, caller \in Addrs :
             CommitToLease(tokenId, commitment, caller)
    \/ /\ transfer = NoTransfer
       /\ \E tokenId \in TokenIds, secret \in Secrets,
             durationMonths \in Durations, monthlyPaymentWei \in MonthlyAmounts,
             value \in Values, caller \in Addrs :
             RevealAndPay(tokenId, secret, durationMonths, monthlyPaymentWei,
                          value, caller)
    \/ /\ transfer = NoTransfer
       /\ \E tokenId \in TokenIds, caller \in Addrs : ConfirmLease(tokenId, caller)
    \/ /\ transfer = NoTransfer
       /\ \E tokenId \in TokenIds, value \in Values, caller \in Addrs :
             MakeMonthlyPayment(tokenId, value, caller)
    \/ /\ transfer = NoTransfer
       /\ \E tokenId \in TokenIds, caller \in Addrs :
             TerminateLease(tokenId, caller)
    \/ /\ transfer = NoTransfer
       /\ \E value \in Values, caller \in Addrs : Receive(value, caller)
    \/ /\ transfer = NoTransfer
       /\ \E t \in Genesis .. MaxTime : Tick(t)
    \/ \E tokenId \in TokenIds, caller \in Addrs :
          BeginTransfer("refundUnconfirmedDeposit", tokenId, caller)
    \/ \E tokenId \in TokenIds, caller \in Addrs :
          BeginTransfer("claimDeposit", tokenId, caller)
    \/ \E tokenId \in TokenIds, commitment \in Digests :
          ReenterCommit(tokenId, commitment)
    \/ \E tokenId \in TokenIds : ReenterConfirm(tokenId)
    \/ \E tokenId \in TokenIds : ReenterTerminate(tokenId)
    \/ ReenterGuarded
    \/ \E accepts \in BOOLEAN : EndTransfer(accepts)

SpecReentrant == Init /\ [][NextReentrant]_vars

\* --------------------------------------------------- computeMonthlyPayment
\* The pricing view of src/CarLease.sol.  A third specification: the token
\* is minted with any originalValueWei (mintOption of src/CarLease.sol
\* checks none), and the view is called with every combination of inputs.

\* type(uint256).max at the scaled width.
MaxUint == 2 ^ WordBits - 1

Return(v) == [ok |-> TRUE, value |-> v, error |-> ""]
Revert(msg) == [ok |-> FALSE, value |-> 0, error |-> msg]
\* Checked arithmetic: an overflowing * or + reverts with Panic(0x11).
Overflow == Revert("Panic(0x11)")

\* Mutant of ComputeMonthlyPayment: creditScoreFactor is not bounded.
ComputeMonthlyPayment_NoCreditBound(tokenId, durationMonths, usagePercent, creditScoreFactor) ==
    IF ~(durationMonths > 0) THEN Revert("Duration must be > 0")
    ELSE IF ~(usagePercent <= MAX_USAGE_PERCENT) THEN Revert("usagePercent too high")
    ELSE IF ~(carData[tokenId] > 0) THEN Revert("Token not found")
    ELSE
      LET base == carData[tokenId] \div durationMonths
          usageAdj == (base * usagePercent) \div 100
          creditDisc == (base * creditScoreFactor) \div 1000
          monthly == base + usageAdj
      IN  IF base * usagePercent > MaxUint THEN Overflow
          ELSE IF base * creditScoreFactor > MaxUint THEN Overflow
          ELSE IF monthly > MaxUint THEN Overflow
          ELSE IF creditDisc >= monthly THEN Return(0)
          ELSE Return(monthly - creditDisc)

ComputeMonthlyPayment(tokenId, durationMonths, usagePercent, creditScoreFactor) ==
    IF ~(durationMonths > 0) THEN Revert("Duration must be > 0")
    ELSE IF ~(usagePercent <= MAX_USAGE_PERCENT) THEN Revert("usagePercent too high")
    ELSE IF ~(creditScoreFactor <= MAX_CREDIT_FACTOR)
    THEN Revert("creditScoreFactor too high")
    ELSE IF ~(carData[tokenId] > 0) THEN Revert("Token not found")
    ELSE
      LET base == carData[tokenId] \div durationMonths
          usageAdj == (base * usagePercent) \div 100
          creditDisc == (base * creditScoreFactor) \div 1000
          monthly == base + usageAdj
      IN  IF base * usagePercent > MaxUint THEN Overflow
          ELSE IF base * creditScoreFactor > MaxUint THEN Overflow
          ELSE IF monthly > MaxUint THEN Overflow
          ELSE IF creditDisc >= monthly THEN Return(0)
          ELSE Return(monthly - creditDisc)

QuoteDurations == 0 .. MaxQuoteDuration
UsagePercents ==
    {0, 1, MAX_USAGE_PERCENT \div 2, MAX_USAGE_PERCENT, MAX_USAGE_PERCENT + 1}
CreditFactors ==
    {0, 1, MAX_CREDIT_FACTOR \div 2, MAX_CREDIT_FACTOR, MAX_CREDIT_FACTOR + 1,
     2 * MAX_CREDIT_FACTOR}

\* After mintOption(model, color, year, originalValueWei, mileageLimit) of
\* src/CarLease.sol for each token.
InitPricing ==
    /\ now = Genesis
    /\ nextTokenId = 1 + Cardinality(TokenIds)
    /\ carData \in [TokenIds -> 0 .. MaxValue]
    /\ leases = [t \in TokenIds |-> NoLease]
    /\ commits = [t \in TokenIds |-> NoCommit]
    /\ balance = 0
    /\ last = NoCall
    /\ mintedTerms = [t \in TokenIds |-> NoTerms]
    /\ transfer = NoTransfer
    /\ paid = 0
    /\ ledger = [t \in TokenIds |-> NoEntry]
    /\ quoted = NoQuote

Quote(tokenId, durationMonths, usagePercent, creditScoreFactor) ==
    /\ quoted' = <<[tokenId |-> tokenId, durationMonths |-> durationMonths,
                    usagePercent |-> usagePercent,
                    creditScoreFactor |-> creditScoreFactor,
                    result |-> ComputeMonthlyPayment(tokenId, durationMonths,
                                                     usagePercent,
                                                     creditScoreFactor)]>>
    /\ UNCHANGED <<now, nextTokenId, carData, leases, commits, balance, last,
                   mintedTerms, transfer, paid, ledger>>

NextPricing ==
    \E tokenId \in TokenIds, durationMonths \in QuoteDurations,
       usagePercent \in UsagePercents, creditScoreFactor \in CreditFactors :
       Quote(tokenId, durationMonths, usagePercent, creditScoreFactor)

SpecPricing == InitPricing /\ [][NextPricing]_vars

\* ===================================================================== claims
\* A stored commitment: the entry of the mapping is not the zero struct.
HasCommit(t) == commits[t] # NoCommit

\* --------------------------------------------------------------------- C1
\* C1: in every reachable state no slot holds both a stored commitment and a
\* lease record (leases[tokenId].exists).
C1_CommitExcludesLease ==
    \A t \in TokenIds : ~(HasCommit(t) /\ leases[t].exists)

\* A reveal has consumed the commitment of a slot and left a lease record.
C1_Witness ==
    \E t \in TokenIds :
        /\ last = [op |-> "revealAndPay", caller |-> leases[t].lessee, tokenId |-> t]
        /\ leases[t].exists
        /\ ~HasCommit(t)

\* --------------------------------------------------------------------- C2
\* C2: while a digest bound to identity a is stored and its deadline has not
\* passed, revealAndPay by any other identity reverts with "Invalid secret",
\* whatever secret (the committer's included), terms and payment it supplies;
\* no step of another identity consumes the commitment or creates the lease.
C2_ThirdPartyRevealFails ==
    /\ [](\A t \in TokenIds, s \in Secrets, a \in Addrs :
             (/\ TokenExists(t)
              /\ commits[t].commitment = Hash(t, s, a)
              /\ now <= commits[t].deadline)
             => \A caller \in Addrs \ {a}, secret \in Secrets,
                   monthlyPaymentWei \in MonthlyAmounts, value \in Values :
                   RevealResult(t, secret, monthlyPaymentWei, value, caller)
                       = "Invalid secret")
    /\ [][\A t \in TokenIds, s \in Secrets, a \in Addrs :
             (/\ commits[t].commitment = Hash(t, s, a)
              /\ last'.caller # a)
             => (commits'[t] = NoCommit => commits[t] = NoCommit)
                /\ (leases'[t].exists => leases[t].exists)]_vars

\* A committer's own digest is stored and live, and another identity's reveal
\* with the committer's secret and the exact deposit reverts.
C2_Witness ==
    \E t \in TokenIds, s \in Secrets, a \in Addrs, caller \in Addrs :
        /\ caller # a
        /\ commits[t] = [commitment |-> Hash(t, s, a), committer |-> a,
                         deadline |-> now + REVEAL_WINDOW]
        /\ last = [op |-> "commitToLease", caller |-> a, tokenId |-> t]
        /\ RevealResult(t, s, MaxMonthly, DEPOSIT_MULTIPLE * MaxMonthly, caller)
               = "Invalid secret"

\* --------------------------------------------------------------------- C3
\* C3 (as claimed): a stored commitment whose deadline has not passed is not
\* replaced by commitToLease; it changes only by being consumed by a reveal.
C3_LiveCommitmentNotReplaced ==
    [][\A t \in TokenIds :
          (/\ HasCommit(t)
           /\ now < commits[t].deadline
           /\ commits'[t] # commits[t])
          => /\ last'.op = "revealAndPay"
             /\ commits'[t] = NoCommit]_vars

\* --------------------------------------------------------------------- C4
\* C4 (as claimed): once X's own commitment is stored for a slot without a
\* lease, no step of another identity and no passing of time up to X's
\* deadline makes X's reveal with the matching secret and exact deposit fail.
C4_CommitterHoldsSlot ==
    [][\A t \in TokenIds, s \in Secrets, X \in Addrs :
          (/\ TokenExists(t)
           /\ ~leases[t].exists
           /\ commits[t].commitment = Hash(t, s, X)
           /\ commits[t].committer = X
           /\ last'.caller # X
           /\ now' <= commits[t].deadline)
          => (\A m \in MonthlyAmounts :
                 RevealResult(t, s, m, DEPOSIT_MULTIPLE * m, X) = "ok")']_vars

\* --------------------------------------------------------------------- C5
\* C5: right after X's commitToLease with digest hash(slot, secret, X), the
\* reveal by X with that secret and payment 3 x amount returns and leaves a
\* PENDING lease held by X; with any other secret it reverts with
\* "Invalid secret" and no lease is created.
C5_CommitThenReveal ==
    /\ [](\A t \in TokenIds, s \in Secrets, X \in Addrs :
             (/\ last = [op |-> "commitToLease", caller |-> X, tokenId |-> t]
              /\ commits[t].commitment = Hash(t, s, X))
             => \A m \in MonthlyAmounts :
                   /\ RevealResult(t, s, m, DEPOSIT_MULTIPLE * m, X) = "ok"
                   /\ \A s2 \in Secrets \ {s} :
                         RevealResult(t, s2, m, DEPOSIT_MULTIPLE * m, X)
                             = "Invalid secret")
    /\ [][(last.op = "commitToLease" /\ leases' # leases) =>
          \A t \in TokenIds, s \in Secrets, X \in Addrs :
             (/\ last = [op |-> "commitToLease", caller |-> X, tokenId |-> t]
              /\ commits[t].commitment = Hash(t, s, X))
             => \A m \in MonthlyAmounts, d \in Durations :
                   /\ RevealAndPay(t, s, d, m, DEPOSIT_MULTIPLE * m, X)
                      => /\ Phase(leases'[t]) = "PENDING"
                         /\ leases'[t].lessee = X
                         /\ leases'[t].monthlyPayment = m
                         /\ leases'[t].deposit = DEPOSIT_MULTIPLE * m
                   /\ \A s2 \in Secrets \ {s} :
                         ~RevealAndPay(t, s2, d, m, DEPOSIT_MULTIPLE * m, X)]_vars

\* X committed and revealed in the deployment block: the lease is PENDING
\* and X holds it.
C5_Witness ==
    \E t \in TokenIds :
        /\ now = Genesis
        /\ last = [op |-> "revealAndPay", caller |-> leases[t].lessee, tokenId |-> t]
        /\ Phase(leases[t]) = "PENDING"
        /\ leases[t].deposit = DEPOSIT_MULTIPLE * leases[t].monthlyPayment
        /\ leases[t].monthlyPayment > 0

\* --------------------------------------------------------------------- C6
\* C6 (as claimed): right after a reveal that returned, the same reveal
\* reverts with the error of a missing commitment.
C6_SecondRevealNoCommitment ==
    \A t \in TokenIds :
        last = [op |-> "revealAndPay", caller |-> leases[t].lessee, tokenId |-> t]
        => \A secret \in Secrets :
              RevealResult(t, secret, leases[t].monthlyPayment,
                           leases[t].deposit, leases[t].lessee) = "No commitment"

\* --------------------------------------------------------------------- C7
\* C7: while a lease record exists for a slot every commitToLease reverts
\* with "Already leased", every revealAndPay reverts, and the holder and the
\* terms of the record do not change.
C7_OneLeasePerSlot ==
    /\ [](\A t \in TokenIds :
             leases[t].exists
             => /\ \A caller \in Addrs :
                      CommitResult(t, caller) = "Already leased"
                /\ \A caller \in Addrs, secret \in Secrets,
                      m \in MonthlyAmounts, value \in Values :
                      RevealResult(t, secret, m, value, caller) # "ok")
    /\ [][\A t \in TokenIds :
             (leases[t].exists /\ leases'[t].exists)
             => /\ leases'[t].lessee = leases[t].lessee
                /\ leases'[t].monthlyPayment = leases[t].monthlyPayment
                /\ leases'[t].durationMonths = leases[t].durationMonths]_vars

\* A lease record exists and another identity's commitToLease reverts.
C7_Witness ==
    \E t \in TokenIds, caller \in Addrs :
        /\ leases[t].exists
        /\ caller # leases[t].lessee
        /\ last = [op |-> "revealAndPay", caller |-> leases[t].lessee, tokenId |-> t]
        /\ CommitResult(t, caller) = "Already leased"

\* --------------------------------------------------------------------- C8
\* C8 (as claimed): every PENDING or ACTIVE lease has deposit = 3 x
\* monthlyPayment.
C8_DepositIsThreeMonthly ==
    \A t \in TokenIds :
        Phase(leases[t]) \in {"PENDING", "ACTIVE"}
        => leases[t].deposit = DEPOSIT_MULTIPLE * leases[t].monthlyPayment

\* --------------------------------------------------------------------- C9
\* C9 (as claimed): a lease becomes ACTIVE only from PENDING; a TERMINATED
\* lease never becomes ACTIVE again.
C9_ActiveOnlyFromPending ==
    [][\A t \in TokenIds :
          (Phase(leases[t]) # "ACTIVE" /\ Phase(leases'[t]) = "ACTIVE")
          => Phase(leases[t]) = "PENDING"]_vars

\* -------------------------------------------------------------------- C10
\* C10 (as claimed): confirmLease by the owner on a PENDING lease returns
\* exactly when now <= confirmDeadline.
C10_ConfirmOnlyBeforeDeadline ==
    \A t \in TokenIds :
        Phase(leases[t]) = "PENDING"
        => (ConfirmResult(t, Owner) = "ok" <=> now <= leases[t].confirmDeadline)

\* The time the claims call last_payment_time: the time of the most recent
\* accepted payment, or the activation time when no payment was accepted yet
\* (the contract's lastPaymentTime field is 0 until the first payment).
LastPaymentOrStart(t) ==
    IF leases[t].paymentsMade = 0 THEN leases[t].startTime
    ELSE leases[t].lastPaymentTime

\* The step is a call of op on slot t that returned and changed the lease.
Returned(op, t) ==
    /\ last'.op = op
    /\ last'.tokenId = t
    /\ leases'[t] # leases[t]

\* -------------------------------------------------------------------- C11
\* C11 (as claimed): for every PENDING lease refundUnconfirmedDeposit by the
\* holder returns at every time after confirmDeadline when the transfer is
\* accepted, and reverts with "Confirmation deadline not passed" at or
\* before it.
C11_ReclaimAfterDeadline ==
    \A t \in TokenIds :
        Phase(leases[t]) = "PENDING"
        => /\ now > leases[t].confirmDeadline
              => RefundResult(t, leases[t].lessee, TRUE) = "ok"
           /\ now <= leases[t].confirmDeadline
              => \A accepts \in BOOLEAN :
                    RefundResult(t, leases[t].lessee, accepts)
                        = "Confirmation deadline not passed"

\* -------------------------------------------------------------------- C12
\* C12: the deposit field of a new lease is the amount paid in at reveal and
\* stays that amount unless a seizure zeroes it; a reclaim that returns is
\* the holder's, pays out exactly the deposit field, resets the record to
\* its default and leaves the slot open to commitToLease by anyone.
C12_RevealThenReclaim ==
    [][\A t \in TokenIds :
          /\ (~leases[t].exists /\ leases'[t].exists)
             => /\ last'.op = "revealAndPay"
                /\ leases'[t].deposit = balance' - balance
          /\ (leases[t].exists /\ leases'[t].exists)
             => leases'[t].deposit \in {leases[t].deposit, 0}
          /\ (leases[t].exists /\ ~leases'[t].exists)
             => /\ last' = [op |-> "refundUnconfirmedDeposit",
                            caller |-> leases[t].lessee, tokenId |-> t]
                /\ leases[t].deposit > 0
                /\ balance - balance' = leases[t].deposit
                /\ leases'[t] = NoLease
                /\ \A caller \in Addrs : CommitResult(t, caller)' = "ok"]_vars

\* A reclaim has returned: the record is gone, the contract holds nothing and
\* a new commitToLease on the slot would return.
C12_Witness ==
    \E t \in TokenIds :
        /\ last.op = "refundUnconfirmedDeposit"
        /\ last.tokenId = t
        /\ last.caller # Owner
        /\ leases[t] = NoLease
        /\ balance = 0
        /\ \A caller \in Addrs : CommitResult(t, caller) = "ok"

\* -------------------------------------------------------------------- C13
\* C13 (as claimed): refundUnconfirmedDeposit returns only on a PENDING
\* lease, never on one that was confirmed.
C13_ReclaimOnlyPending ==
    [][\A t \in TokenIds :
          Returned("refundUnconfirmedDeposit", t)
          => Phase(leases[t]) = "PENDING"]_vars

\* -------------------------------------------------------------------- C14
\* C14 (as claimed): every ACTIVE lease has
\* paymentsMade <= floor((now - startTime) / 30 days).
C14_NeverAheadOfSchedule ==
    \A t \in TokenIds :
        Phase(leases[t]) = "ACTIVE"
        => leases[t].paymentsMade <= ExpectedPayments(t)

\* -------------------------------------------------------------------- C15
\* C15 (as claimed): on an ACTIVE lease makeMonthlyPayment by the holder with
\* the exact amount returns at exactly last_payment_time + 30 days.
C15_PayAtPeriodBoundary ==
    \A t \in TokenIds :
        (Phase(leases[t]) = "ACTIVE" /\ now = LastPaymentOrStart(t) + PERIOD)
        => PayResult(t, leases[t].monthlyPayment, leases[t].lessee) = "ok"

\* -------------------------------------------------------------------- C16
\* C16 (as claimed): claimDeposit does not return at any time
\* now <= last_payment_time + 45 days, and at exactly that time it reverts
\* with "Payment grace period not expired".
C16_NoSeizeWithinGrace ==
    \A t \in TokenIds, accepts \in BOOLEAN :
        (/\ Phase(leases[t]) = "ACTIVE"
         /\ now <= LastPaymentOrStart(t) + PAYMENT_GRACE)
        => /\ ClaimResult(t, Owner, accepts) # "ok"
           /\ now = LastPaymentOrStart(t) + PAYMENT_GRACE
              => ClaimResult(t, Owner, accepts)
                     = "Payment grace period not expired"

\* -------------------------------------------------------------------- C17
\* C17 (as claimed): on every ACTIVE lease claimDeposit by the owner returns
\* one time unit after last_payment_time + 45 days; it pays out the full
\* deposit, leaves the lease TERMINATED and zeroes the deposit field.
C17_SeizeAfterGrace ==
    /\ [](\A t \in TokenIds :
             (/\ Phase(leases[t]) = "ACTIVE"
              /\ now = LastPaymentOrStart(t) + PAYMENT_GRACE + 1)
             => ClaimResult(t, Owner, TRUE) = "ok")
    /\ [][\A t \in TokenIds :
             Returned("claimDeposit", t)
             => /\ balance - balance' = leases[t].deposit
                /\ Phase(leases'[t]) = "TERMINATED"
                /\ leases'[t].deposit = 0]_vars

\* -------------------------------------------------------------------- C18
\* C18: claimDeposit does not return in a state where
\* paymentsMade >= floor((now - startTime) / 30 days), and every claimDeposit
\* that returns starts from a state where the holder is behind.
C18_NoSeizeWhileCurrent ==
    /\ [](\A t \in TokenIds, caller \in Addrs, accepts \in BOOLEAN :
             (leases[t].exists
              /\ leases[t].paymentsMade >= ExpectedPayments(t))
             => ClaimResult(t, caller, accepts) # "ok")
    /\ [][\A t \in TokenIds :
             Returned("claimDeposit", t)
             => leases[t].paymentsMade < ExpectedPayments(t)]_vars

\* An ACTIVE lease with a deposit whose holder is current and for which the
\* grace check passes: claimDeposit reverts with "Payments are current".
C18_Witness ==
    \E t \in TokenIds :
        /\ Phase(leases[t]) = "ACTIVE"
        /\ leases[t].deposit > 0
        /\ leases[t].paymentsMade >= ExpectedPayments(t)
        /\ ClaimResult(t, Owner, TRUE) = "Payments are current"

\* -------------------------------------------------------------------- C19
\* C19 (as claimed): a makeMonthlyPayment that returns adds one to
\* paymentsMade, sets lastPaymentTime to now and leaves the funds held by
\* the contract unchanged (the payment is forwarded to the owner).
C19_PaymentForwarded ==
    [][\A t \in TokenIds :
          Returned("makeMonthlyPayment", t)
          => /\ leases'[t].paymentsMade = leases[t].paymentsMade + 1
             /\ leases'[t].lastPaymentTime = now
             /\ balance' = balance]_vars

\* -------------------------------------------------------------------- C20
\* C20 (as claimed): when no slot holds a PENDING or ACTIVE lease (every
\* lease is TERMINATED or reclaimed) the contract holds no funds: everything
\* paid in was transferred out.
C20_FundsConserved ==
    (\A t \in TokenIds : Phase(leases[t]) \notin {"PENDING", "ACTIVE"})
    => balance = 0

\* refund = max(0, deposit - (durationMonths - paymentsMade) x monthlyPayment)
EarlyExitRefund(l) ==
    LET penalty == (l.durationMonths - l.paymentsMade) * l.monthlyPayment
    IN  IF l.deposit - penalty > 0 THEN l.deposit - penalty ELSE 0

\* -------------------------------------------------------------------- C21
\* C21 (as claimed): a terminateLease that returns leaves the lease
\* TERMINATED and pays out max(0, deposit - (durationMonths - paymentsMade)
\* x monthlyPayment).
C21_TerminateRefund ==
    [][\A t \in TokenIds :
          Returned("terminateLease", t)
          => /\ Phase(leases'[t]) = "TERMINATED"
             /\ balance - balance' = EarlyExitRefund(leases[t])]_vars

\* -------------------------------------------------------------------- C22
\* C22 (as claimed): on an ACTIVE lease of another identity whose deposit
\* has not been seized, terminateLease called by the owner reverts.
C22_OwnerTerminatesOnlySeized ==
    \A t \in TokenIds :
        (/\ Phase(leases[t]) = "ACTIVE"
         /\ leases[t].lessee # Owner
         /\ leases[t].deposit > 0)
        => TerminateResult(t, Owner) # "ok"

\* -------------------------------------------------------------------- C23
\* C23 (as claimed): once a lease is TERMINATED, commitToLease on its slot
\* returns for every caller.
C23_TerminatedFreesSlot ==
    \A t \in TokenIds :
        Phase(leases[t]) = "TERMINATED"
        => \A caller \in Addrs : CommitResult(t, caller) = "ok"

\* -------------------------------------------------------------------- C24
\* C24: when the recipient rejects the transfer, refundUnconfirmedDeposit
\* and claimDeposit revert; a lease is deleted, or set inactive by
\* claimDeposit, only in a step that moves its deposit out, and funds leave
\* the contract only in such a step.
C24_FailedTransferAborts ==
    /\ [](\A t \in TokenIds, caller \in Addrs :
             /\ RefundResult(t, caller, FALSE) # "ok"
             /\ ClaimResult(t, caller, FALSE) # "ok")
    /\ [][\A t \in TokenIds :
             /\ ((leases[t].exists /\ ~leases'[t].exists)
                   \/ Returned("claimDeposit", t))
                => /\ leases[t].deposit > 0
                   /\ balance' = balance - leases[t].deposit
             /\ balance' < balance
                => \/ (leases[t].exists /\ ~leases'[t].exists)
                   \/ Returned("claimDeposit", t)]_vars

\* Every check of the holder's refund passes and the transfer is rejected:
\* the call reverts with "ETH transfer failed".
C24_Witness ==
    \E t \in TokenIds :
        /\ leases[t].exists
        /\ RefundResult(t, leases[t].lessee, TRUE) = "ok"
        /\ RefundResult(t, leases[t].lessee, FALSE) = "ETH transfer failed"

\* -------------------------------------------------------------------- C25
\* C25 (under SpecReentrant): while the transfer of refundUnconfirmedDeposit
\* or claimDeposit is in progress the recipient's calls see the record as
\* written (deleted, respectively deposit 0); by that state alone every
\* refundUnconfirmedDeposit and claimDeposit on the slot fails a require
\* before any transfer, and no further funds leave the contract.
C25_ReentrantCallSeesWrittenState ==
    /\ [](transfer # NoTransfer
          => LET t == transfer.tokenId
             IN  /\ transfer.op = "refundUnconfirmedDeposit"
                    => leases[t] = NoLease
                 /\ transfer.op = "claimDeposit" => leases[t].deposit = 0
                 /\ \A caller \in Addrs, accepts \in BOOLEAN :
                       /\ RefundResult(t, caller, accepts)
                              \notin {"ok", "ETH transfer failed"}
                       /\ ClaimResult(t, caller, accepts)
                              \notin {"ok", "ETH transfer failed"}
                 /\ balance >= 0)
    /\ [][(transfer # NoTransfer /\ transfer' # NoTransfer)
          => balance' = balance]_vars

\* A deposit is being transferred and a call made by the recipient from
\* inside the transfer has returned.
C25_Witness ==
    /\ transfer # NoTransfer
    /\ transfer.amount > 0
    /\ last # transfer.saved[6]
    /\ last.caller = transfer.to
    /\ last.op \in {"commitToLease", "confirmLease"}

\* -------------------------------------------------------------------- C26
\* C26: the lessee of a new lease is the caller of the reveal, and no step
\* that leaves the lease ACTIVE changes it.
C26_HolderFixedWhileActive ==
    [][\A t \in TokenIds :
          /\ (~leases[t].exists /\ leases'[t].exists)
             => /\ last'.op = "revealAndPay"
                /\ leases'[t].lessee = last'.caller
          /\ (leases[t].exists /\ Phase(leases'[t]) = "ACTIVE")
             => leases'[t].lessee = leases[t].lessee]_vars

\* An ACTIVE lease of an identity other than the owner, after a payment.
C26_Witness ==
    \E t \in TokenIds :
        /\ Phase(leases[t]) = "ACTIVE"
        /\ leases[t].lessee # Owner
        /\ last = [op |-> "makeMonthlyPayment", caller |-> leases[t].lessee,
                   tokenId |-> t]

\* -------------------------------------------------------------------- C27
\* C27 (as claimed): every lease has the monthlyPayment and durationMonths
\* that were passed to mintOption for its token.
C27_TermsAreMintedTerms ==
    \A t \in TokenIds :
        leases[t].exists
        => /\ leases[t].monthlyPayment = mintedTerms[t].monthlyPaymentWei
           /\ leases[t].durationMonths = mintedTerms[t].durationMonths

\* -------------------------------------------------------------------- C28
\* C28 (as claimed): no PENDING lease has monthlyPayment 0 or deposit 0.
C28_NoZeroAmountLease ==
    \A t \in TokenIds :
        Phase(leases[t]) = "PENDING"
        => (leases[t].monthlyPayment > 0 /\ leases[t].deposit > 0)

\* -------------------------------------------------------------------- C29
\* C29: on an ACTIVE lease makeMonthlyPayment by the holder with an amount
\* other than monthlyPayment (one more and one less included) reverts with
\* "Incorrect payment amount", no caller's payment of another amount
\* returns, and a payment that returns adds exactly monthlyPayment to the
\* contract balance.
C29_ExactPaymentOnly ==
    /\ [](\A t \in TokenIds :
             Phase(leases[t]) = "ACTIVE"
             => \A value \in 0 .. (leases[t].monthlyPayment + 1) :
                   value # leases[t].monthlyPayment
                   => /\ PayResult(t, value, leases[t].lessee)
                             = "Incorrect payment amount"
                      /\ \A caller \in Addrs :
                            PayResult(t, value, caller) # "ok")
    /\ [][\A t \in TokenIds :
             Returned("makeMonthlyPayment", t)
             => balance' - balance = leases[t].monthlyPayment]_vars

\* A payment is due on an ACTIVE lease and the holder's payment of one unit
\* less and of one unit more both revert with "Incorrect payment amount".
C29_Witness ==
    \E t \in TokenIds :
        /\ Phase(leases[t]) = "ACTIVE"
        /\ leases[t].monthlyPayment > 0
        /\ PayResult(t, leases[t].monthlyPayment, leases[t].lessee) = "ok"
        /\ PayResult(t, leases[t].monthlyPayment - 1, leases[t].lessee)
               = "Incorrect payment amount"
        /\ PayResult(t, leases[t].monthlyPayment + 1, leases[t].lessee)
               = "Incorrect payment amount"

C31_RevealAtDeadline ==
    /\ [](\A t \in TokenIds, s \in Secrets, X \in Addrs :
             (HasCommit(t) /\ commits[t].commitment = Hash(t, s, X))
             => \A m \in MonthlyAmounts :
                   /\ now = commits[t].deadline
                      => RevealResult(t, s, m, DEPOSIT_MULTIPLE * m, X) = "ok"
                   /\ now > commits[t].deadline
                      => RevealResult(t, s, m, DEPOSIT_MULTIPLE * m, X)
                             = "Commitment expired")
    /\ [][\A t \in TokenIds :
             (HasCommit(t) /\ now > commits[t].deadline)
             => /\ ~(last'.op = "revealAndPay" /\ last'.tokenId = t)
                /\ leases'[t] = leases[t]
                /\ commits'[t] # commits[t] => last'.op = "commitToLease"]_vars

\* The clock stands at the reveal deadline of a commitment placed in the
\* deployment block, and the reveal made at this instant has returned: the
\* lease record's confirmation window starts now.
C31_Witness ==
    \E t \in TokenIds :
        /\ now = Genesis + REVEAL_WINDOW
        /\ last = [op |-> "revealAndPay", caller |-> leases[t].lessee, tokenId |-> t]
        /\ Phase(leases[t]) = "PENDING"
        /\ leases[t].confirmDeadline = now + CONFIRM_WINDOW

C33_OneRecordPerOperation ==
    /\ last.op # "none" => Len(Emitted) = 1
    /\ last.op = "none" => Emitted = <<>>

C35_GraceImpliesBehind ==
    \A t \in TokenIds :
        /\ (Phase(leases[t]) = "ACTIVE"
              /\ now > leases[t].lastPaymentTime + PAYMENT_GRACE)
           => leases[t].paymentsMade < ExpectedPayments(t)
        /\ \A accepts \in BOOLEAN :
              ClaimResult(t, Owner, accepts) # "Payments are current"

\* -------------------------------------------------------------------- C36
\* C36: the contract's balance equals the sum of the deposit fields of the
\* lease records plus the sum of the monthly payments accepted; the balance
\* grows only in a revealAndPay or makeMonthlyPayment that returned and
\* shrinks only in a refundUnconfirmedDeposit or claimDeposit that
\* returned, by the deposit recorded before the call.
SumDeposits ==
    LET RECURSIVE Sum(_)
        Sum(S) == IF S = {} THEN 0
                  ELSE LET t == CHOOSE x \in S : TRUE
                       IN  leases[t].deposit + Sum(S \ {t})
    IN  Sum({t \in TokenIds : leases[t].exists})

C38_ClaimIffNotCurrent ==
    \A t \in TokenIds, accepts \in BOOLEAN :
        (Phase(leases[t]) = "ACTIVE" /\ leases[t].deposit > 0)
        => (ClaimResult(t, Owner, accepts) = "ok" <=> ~IsPaymentCurrent(t))

\* C38, as the contract has it: for every ACTIVE lease with a non-zero
\* deposit, claimDeposit called by the owner passes every check of default
\* if and only if isPaymentCurrent returns false; it then returns if the
\* owner accepts the transfer and reverts with "ETH transfer failed" if not.
\* While isPaymentCurrent returns true the call reverts in one of the two
\* checks of default.
C38_ClaimIffNotCurrentAndAccepted ==
    \A t \in TokenIds :
        (Phase(leases[t]) = "ACTIVE" /\ leases[t].deposit > 0)
        => /\ ClaimResult(t, Owner, TRUE) = "ok" <=> ~IsPaymentCurrent(t)
           /\ ClaimResult(t, Owner, FALSE) = "ETH transfer failed"
                  <=> ~IsPaymentCurrent(t)
           /\ IsPaymentCurrent(t)
              => \A accepts \in BOOLEAN :
                    ClaimResult(t, Owner, accepts)
                        \in {"Payment grace period not expired",
                             "Payments are current"}

\* The holder of an ACTIVE lease with a deposit is in default: the view
\* returns false, and the owner's claimDeposit returns or reverts with the
\* transfer.
C38_Witness ==
    \E t \in TokenIds :
        /\ Phase(leases[t]) = "ACTIVE"
        /\ leases[t].deposit > 0
        /\ ~IsPaymentCurrent(t)
        /\ ClaimResult(t, Owner, TRUE) = "ok"
        /\ ClaimResult(t, Owner, FALSE) = "ETH transfer failed"

\* -------------------------------------------------------------------- C39
\* C39: of the deposit paid in at the reveal that created a lease, the
\* contract never sends out more than was paid in, whatever calls of
\* refundUnconfirmedDeposit, claimDeposit, terminateLease and confirmLease
\* follow, and never sends a part to the lessee and a part to the owner;
\* what is sent out is the whole deposit, once.
C39_DepositLeavesAtMostOnce ==
    /\ [](\A t \in TokenIds :
             /\ ToLessee(t) + ToOwner(t) <= PaidIn(t)
             /\ ~(ToLessee(t) > 0 /\ ToOwner(t) > 0)
             /\ ToLessee(t) \in {0, PaidIn(t)}
             /\ ToOwner(t) \in {0, PaidIn(t)}
             /\ leases[t].deposit
                    = IF leases[t].exists
                      THEN PaidIn(t) - ToLessee(t) - ToOwner(t)
                      ELSE 0)
    /\ [][\A t \in TokenIds :
             balance' < balance
             => /\ ToLessee(t) + ToOwner(t) = 0
                /\ ToLessee(t)' + ToOwner(t)' = PaidIn(t)]_vars

\* The owner seized the deposit of a lease, confirmed the lease again, and
\* the holder's refundUnconfirmedDeposit and the owner's second
\* claimDeposit both revert: the deposit has left once.
C39_Witness ==
    \E t \in TokenIds :
        /\ PaidIn(t) > 0
        /\ ToOwner(t) = PaidIn(t)
        /\ last = [op |-> "confirmLease", caller |-> Owner, tokenId |-> t]
        /\ Phase(leases[t]) = "ACTIVE"
        /\ \A accepts \in BOOLEAN :
              /\ ClaimResult(t, Owner, accepts)
                     \in {"Payments are current", "No deposit to claim"}
              /\ RefundResult(t, leases[t].lessee, accepts) # "ok"

\* -------------------------------------------------------------------- C40
\* The amount of the claim, in unbounded arithmetic:
\* max(0, base + floor(base x usagePercent / 100)
\*             - floor(base x creditScoreFactor / 1000))
\* with base = floor(originalValueWei / durationMonths).
DerivedAmount(originalValueWei, durationMonths, usagePercent, creditScoreFactor) ==
    LET base == originalValueWei \div durationMonths
        amount == base + (base * usagePercent) \div 100
                       - (base * creditScoreFactor) \div 1000
    IN  IF amount < 0 THEN 0 ELSE amount

\* The latest call of computeMonthlyPayment.
Quoted == quoted[1]

\* The inputs of the latest call are within the bounds of the claim.
QuotedInBounds ==
    /\ Quoted.durationMonths > 0
    /\ Quoted.usagePercent <= 100
    /\ Quoted.creditScoreFactor <= 1000

=============================================================================
